---------------------------- MODULE Spec2Model ----------------------------
(***************************************************************************)
(* Model of selfthoughts.py: the resilient-JSON response pipeline          *)
(* (parse_model_json, _extract_json_object, compact_notes, the renderers)  *)
(* and the three run controllers (baseline_run, loop_run, thoughts_run)    *)
(* driven by main.                                                         *)
(*                                                                         *)
(* Text is modelled character by character: a Python str is a sequence of  *)
(* one-character strings.  Python values produced by json.loads are tagged *)
(* records [t, v]: "str" (v a character sequence), "num" (v its digits),   *)
(* "null", "bool", "list" (v a sequence of values), "dict" (v the sequence *)
(* of <<key, value>> pairs in insertion order, keys unique).               *)
(***************************************************************************)
EXTENDS Integers, Sequences, FiniteSets, TLC

\* ------------------------------------------------------------------------
\* Characters and words
\* ------------------------------------------------------------------------
w_next_thought ==
    <<"n", "e", "x", "t", "_", "t", "h", "o", "u", "g", "h", "t">>
w_notes ==
    <<"n", "o", "t", "e", "s">>
w_premises ==
    <<"p", "r", "e", "m", "i", "s", "e", "s">>
w_hypotheses ==
    <<"h", "y", "p", "o", "t", "h", "e", "s", "e", "s">>
w_uncertainties ==
    <<"u", "n", "c", "e", "r", "t", "a", "i", "n", "t", "i", "e", "s">>
w_plan_next ==
    <<"p", "l", "a", "n", "_", "n", "e", "x", "t">>
w_answer ==
    <<"a", "n", "s", "w", "e", "r">>
w_raw_text ==
    <<"r", "a", "w", "_", "t", "e", "x", "t">>
w_parse_error ==
    <<"p", "a", "r", "s", "e", "_", "e", "r", "r", "o", "r">>
w_json ==
    <<"j", "s", "o", "n">>
w_null ==
    <<"n", "u", "l", "l">>
w_true ==
    <<"t", "r", "u", "e">>
w_false ==
    <<"f", "a", "l", "s", "e">>
w_None ==
    <<"N", "o", "n", "e">>
w_True ==
    <<"T", "r", "u", "e">>
w_False ==
    <<"F", "a", "l", "s", "e">>

\* The whitespace of the alphabet: what str.strip(), the JSON grammar and the
\* regex class \s all skip.
Whitespace == {" ", "\n"}

Digits == {"0", "1", "2", "3", "4", "5", "6", "7", "8", "9"}

\* str.lower() on one character (the capitals of the alphabet).
LowerChar(c) ==
    CASE c = "J" -> "j"
      [] c = "S" -> "s"
      [] c = "O" -> "o"
      [] c = "N" -> "n"
      [] c = "T" -> "t"
      [] c = "F" -> "f"
      [] OTHER -> c

Min(a, b) == IF a <= b THEN a ELSE b

\* F applied to a value computed once (a local variable of the source).
With(v, F(_)) == F(v)

With2(v, w, F(_, _)) == F(v, w)

With3(u, v, w, F(_, _, _)) == F(u, v, w)

\* s[a:] with a 0-based, as Python slices it.
SliceFrom(s, a) == SubSeq(s, a + 1, Len(s))

Max(a, b) == IF a >= b THEN a ELSE b

\* s[:n]: the first n elements, or all but the last -n when n is negative.
SliceTo(s, n) ==
    IF n >= 0 THEN SubSeq(s, 1, Min(n, Len(s)))
    ELSE SubSeq(s, 1, Max(0, Len(s) + n))

\* s.startswith(p)
StartsWith(s, p) == Len(s) >= Len(p) /\ SubSeq(s, 1, Len(p)) = p

RECURSIVE LStripPos(_, _, _)
\* Index of the first character of s at or after i that is not in chars
\* (Len(s)+1 when there is none).
LStripPos(s, i, chars) ==
    IF i <= Len(s) /\ s[i] \in chars THEN LStripPos(s, i + 1, chars) ELSE i

RECURSIVE RStripPos(_, _, _)
\* Index of the last character of s at or before i that is not in chars
\* (0 when there is none).
RStripPos(s, i, chars) ==
    IF i >= 1 /\ s[i] \in chars THEN RStripPos(s, i - 1, chars) ELSE i

\* s.strip(chars): drop leading and trailing characters that are in chars.
StripChars(s, chars) ==
    SubSeq(s, LStripPos(s, 1, chars), RStripPos(s, Len(s), chars))

\* s.strip()
Strip(s) == StripChars(s, Whitespace)

\* ------------------------------------------------------------------------
\* Python values
\* ------------------------------------------------------------------------
Str(s) == [t |-> "str", v |-> s]
Num(d) == [t |-> "num", v |-> d]
Null == [t |-> "null", v |-> <<>>]
Bool(b) == [t |-> "bool", v |-> IF b THEN w_true ELSE w_false]
List(xs) == [t |-> "list", v |-> xs]
Dict(f) == [t |-> "dict", v |-> f]
EmptyDict == Dict(<<>>)

\* isinstance(x, dict), isinstance(x, list)
IsDict(x) == x.t = "dict"
IsList(x) == x.t = "list"
IsStr(x) == x.t = "str"

\* The keys of the item sequence f.
Keys(f) == {f[i][1] : i \in 1..Len(f)}

\* The position of key in the item sequence f (key is one of its keys).
KeyIndex(f, key) == CHOOSE i \in 1..Len(f) : f[i][1] = key

\* d.get(key, default) on a dict value
Get(d, key, default) ==
    IF key \in Keys(d.v) THEN d.v[KeyIndex(d.v, key)][2] ELSE default

\* d[key] = val on the item sequence f: a repeated key keeps its position and
\* takes the later value.
Put(f, key, val) ==
    IF key \in Keys(f)
    THEN [f EXCEPT ![KeyIndex(f, key)] = <<key, val>>]
    ELSE Append(f, <<key, val>>)

\* Python truthiness, as in (x or "") and in "if x:".
Truthy(x) ==
    CASE x.t = "str" -> Len(x.v) > 0
      [] x.t = "num" -> x.v # <<"0">>
      [] x.t = "null" -> FALSE
      [] x.t = "bool" -> x.v = w_true
      [] x.t = "list" -> Len(x.v) > 0
      [] x.t = "dict" -> Len(x.v) > 0

\* ------------------------------------------------------------------------
\* json.loads, for texts over the alphabet: whitespace, objects, arrays,
\* strings without escapes, unsigned integers, null, true, false.
\* A scan returns [ok, val, pos]: pos is the index after the value.
\* ------------------------------------------------------------------------
ScanFail == [ok |-> FALSE, val |-> Null, pos |-> 0]

ScanOk(val, pos) == [ok |-> TRUE, val |-> val, pos |-> pos]

\* Index of the first character at or after i that is not whitespace.
skip_ws(s, i) == LStripPos(s, i, Whitespace)

RECURSIVE find_char(_, _, _)
\* s.find(c, i-1) + 1: index of the first c at or after i, 0 when absent.
find_char(s, i, c) ==
    IF i > Len(s) THEN 0
    ELSE IF s[i] = c THEN i
    ELSE find_char(s, i + 1, c)

\* A string whose opening quote is at i - 1: runs to the next quote; a raw
\* newline inside a string is rejected (strict mode).
scan_string(s, i) ==
    With(find_char(s, i, "\""), LAMBDA q :
        IF q = 0 THEN ScanFail
        ELSE IF \E j \in i..(q - 1) : s[j] = "\n" THEN ScanFail
        ELSE ScanOk(Str(SubSeq(s, i, q - 1)), q + 1))

\* An integer starting at i: "0", or a nonzero digit followed by digits.
scan_number(s, i) ==
    With(IF s[i] = "0" THEN i + 1 ELSE LStripPos(s, i, Digits), LAMBDA e :
        ScanOk(Num(SubSeq(s, i, e - 1)), e))

\* The literal word w at i.
scan_literal(s, i, w, val) ==
    IF SubSeq(s, i, Min(Len(s), i + Len(w) - 1)) = w
    THEN ScanOk(val, i + Len(w))
    ELSE ScanFail

RECURSIVE scan_value(_, _)
RECURSIVE scan_members(_, _, _)
RECURSIVE scan_elements(_, _, _)

\* One JSON value starting at or after i0 (leading whitespace skipped).
scan_value(s, i0) ==
    With(skip_ws(s, i0), LAMBDA i :
        IF i > Len(s) THEN ScanFail
        ELSE CASE s[i] = "{" ->
                    With(skip_ws(s, i + 1), LAMBDA j :
                        IF j <= Len(s) /\ s[j] = "}"
                        THEN ScanOk(EmptyDict, j + 1)
                        ELSE scan_members(s, j, <<>>))
               [] s[i] = "[" ->
                    With(skip_ws(s, i + 1), LAMBDA j :
                        IF j <= Len(s) /\ s[j] = "]"
                        THEN ScanOk(List(<<>>), j + 1)
                        ELSE scan_elements(s, j, <<>>))
               [] s[i] = "\"" -> scan_string(s, i + 1)
               [] s[i] \in Digits -> scan_number(s, i)
               [] s[i] = "n" -> scan_literal(s, i, w_null, Null)
               [] s[i] = "t" -> scan_literal(s, i, w_true, Bool(TRUE))
               [] s[i] = "f" -> scan_literal(s, i, w_false, Bool(FALSE))
               [] OTHER -> ScanFail)

\* The members of an object from the key at i on; acc holds those read.
scan_members(s, i, acc) ==
    IF i > Len(s) \/ s[i] # "\"" THEN ScanFail
    ELSE With(scan_string(s, i + 1), LAMBDA key :
         IF ~key.ok THEN ScanFail
         ELSE With(skip_ws(s, key.pos), LAMBDA c :
              IF c > Len(s) \/ s[c] # ":" THEN ScanFail
              ELSE With(scan_value(s, c + 1), LAMBDA val :
                   IF ~val.ok THEN ScanFail
                   ELSE With2(skip_ws(s, val.pos),
                              Put(acc, key.val.v, val.val),
                              LAMBDA e, acc2 :
                        IF e > Len(s) THEN ScanFail
                        ELSE IF s[e] = "}" THEN ScanOk(Dict(acc2), e + 1)
                        ELSE IF s[e] = ","
                             THEN scan_members(s, skip_ws(s, e + 1), acc2)
                        ELSE ScanFail))))

\* The elements of an array from the value at i on; acc holds those read.
scan_elements(s, i, acc) ==
    With(scan_value(s, i), LAMBDA val :
        IF ~val.ok THEN ScanFail
        ELSE With2(skip_ws(s, val.pos), Append(acc, val.val),
                   LAMBDA e, acc2 :
             IF e > Len(s) THEN ScanFail
             ELSE IF s[e] = "]" THEN ScanOk(List(acc2), e + 1)
             ELSE IF s[e] = "," THEN scan_elements(s, e + 1, acc2)
             ELSE ScanFail))

\* json.loads(text): [ok |-> FALSE] stands for the JSONDecodeError; the whole
\* text must be one value between optional whitespace.
json_loads(text) ==
    With(scan_value(text, 1), LAMBDA r :
        IF r.ok /\ skip_ws(text, r.pos) > Len(text)
        THEN [ok |-> TRUE, val |-> r.val]
        ELSE [ok |-> FALSE, val |-> Null])

\* ------------------------------------------------------------------------
\* str() and repr() of a value
\* ------------------------------------------------------------------------
RECURSIVE py_repr(_)
RECURSIVE repr_items(_, _)
RECURSIVE repr_pairs(_, _)

\* repr(x); strings hold no quote characters, so repr uses single quotes.
py_repr(x) ==
    CASE x.t = "str" -> <<"'">> \o x.v \o <<"'">>
      [] x.t = "num" -> x.v
      [] x.t = "null" -> w_None
      [] x.t = "bool" -> IF x.v = w_true THEN w_True ELSE w_False
      [] x.t = "list" -> <<"[">> \o repr_items(x.v, 1) \o <<"]">>
      [] x.t = "dict" -> <<"{">> \o repr_pairs(x.v, 1) \o <<"}">>

\* ", ".join(repr(e) for e in xs[i-1:])
repr_items(xs, i) ==
    IF i > Len(xs) THEN <<>>
    ELSE py_repr(xs[i])
         \o (IF i < Len(xs) THEN <<",", " ">> ELSE <<>>)
         \o repr_items(xs, i + 1)

\* ", ".join(repr(k) + ": " + repr(v)) over the items from position i on
repr_pairs(f, i) ==
    IF i > Len(f) THEN <<>>
    ELSE py_repr(Str(f[i][1])) \o <<":", " ">> \o py_repr(f[i][2])
         \o (IF i < Len(f) THEN <<",", " ">> ELSE <<>>)
         \o repr_pairs(f, i + 1)

\* str(x)
py_str(x) == IF x.t = "str" THEN x.v ELSE py_repr(x)

\* ------------------------------------------------------------------------
\* _extract_json_object
\* ------------------------------------------------------------------------
\* None, and a found substring
NoCandidate == [found |-> FALSE, s |-> <<>>]

Candidate(s) == [found |-> TRUE, s |-> s]

\* The grave accent U+0060, which a TLA+ string cannot hold, as an atom of its
\* own among the characters.
Backtick == "BACKTICK"

Fence == <<Backtick, Backtick, Backtick>>

\* s.lower()
Lower(s) == [i \in 1..Len(s) |-> LowerChar(s[i])]

RECURSIVE match_braces_first_close(_, _, _, _)
\* match_braces ending at the first "}" whatever the depth.
match_braces_first_close(s, start, i, depth) ==
    IF i > Len(s) THEN NoCandidate
    ELSE IF s[i] = "}" THEN Candidate(SubSeq(s, start, i))
    ELSE match_braces_first_close(s, start, i + 1, depth)

RECURSIVE match_braces(_, _, _, _)
\* The loop of lines 172-180: scan from i with the depth counted so far;
\* return s[start:i+1] at the "}" that brings the depth back to 0.
match_braces(s, start, i, depth) ==
    IF i > Len(s) THEN NoCandidate
    ELSE IF s[i] = "{" THEN match_braces(s, start, i + 1, depth + 1)
    ELSE IF s[i] = "}"
         THEN IF depth - 1 = 0
              THEN Candidate(SubSeq(s, start, i))
              ELSE match_braces(s, start, i + 1, depth - 1)
    ELSE match_braces(s, start, i + 1, depth)

\* The text after text.strip() and the removal of fences (lines 162-167).
strip_fences(text) ==
    With(Strip(text), LAMBDA s :
        IF StartsWith(s, Fence)
        THEN With(StripChars(s, {Backtick, " ", "\n"}), LAMBDA u :
             IF StartsWith(Lower(u), w_json)
             THEN Strip(SliceFrom(u, 4))
             ELSE u)
        ELSE s)

extract_json_object(text) ==
    With(strip_fences(text), LAMBDA s :
        With(find_char(s, 1, "{"), LAMBDA start :
            IF start = 0 THEN NoCandidate
            ELSE match_braces(s, start, start, 0)))

\* ------------------------------------------------------------------------
\* parse_model_json
\* ------------------------------------------------------------------------
\* The literal "next_thought" with its quotes
QuotedNextThought == <<"\"">> \o w_next_thought \o <<"\"">>

\* The regex "next_thought"\s*:\s*"([^"]+)" matched with its first character
\* at i: the key, whitespace, a colon, whitespace, an opening quote, one or
\* more characters that are not a quote, a closing quote.
NoMatch == [found |-> FALSE, group |-> <<>>]

regex_match_at(text, i) ==
    With(i + Len(QuotedNextThought), LAMBDA a :
        IF a - 1 <= Len(text) /\ SubSeq(text, i, a - 1) = QuotedNextThought
        THEN With(skip_ws(text, a), LAMBDA c :
             IF c <= Len(text) /\ text[c] = ":"
             THEN With(skip_ws(text, c + 1), LAMBDA d :
                  IF d <= Len(text) /\ text[d] = "\""
                  THEN With(find_char(text, d + 1, "\""), LAMBDA q :
                       IF q > d + 1
                       THEN [found |-> TRUE,
                             group |-> SubSeq(text, d + 1, q - 1)]
                       ELSE NoMatch)
                  ELSE NoMatch)
             ELSE NoMatch)
        ELSE NoMatch)

RECURSIVE regex_search_from(_, _)
\* The leftmost match whose first character is at or after i.
regex_search_from(text, i) ==
    IF i > Len(text) THEN NoMatch
    ELSE With(regex_match_at(text, i), LAMBDA m :
         IF m.found THEN m ELSE regex_search_from(text, i + 1))

\* re.search: the leftmost position at which the regex matches.
regex_search(text) == regex_search_from(text, 1)

\* str(e) of the ValueError of line 201
parse_error_message(text) ==
    <<"Model did not return valid JSON.\nRaw:\n">>
        \o SliceTo(text, 500) \o <<".", ".", ".">>

\* The payload of the regex rescue (line 199)
rescued_payload(group) ==
    Dict(<< <<w_next_thought, Str(group)>>, <<w_notes, EmptyDict>> >>)

\* parse_model_json(text): ok = FALSE stands for the raised ValueError, whose
\* message val then is; stage is the stage that produced the value (0: none).
\* Stage 2 on the candidate of _extract_json_object ("if candidate:" lets
\* neither None nor an empty string through).
parse_candidate(candidate) ==
    IF candidate.found /\ Len(candidate.s) > 0
    THEN json_loads(candidate.s)
    ELSE [ok |-> FALSE, val |-> Null]

\* parse_model_json with the regex rescue tried before the two parses.
parse_model_json_rescue_first(text) ==
    With(regex_search(text), LAMBDA m :
        IF m.found
        THEN [ok |-> TRUE, val |-> rescued_payload(m.group), stage |-> 3]
        ELSE With(json_loads(text), LAMBDA direct :
             IF direct.ok
             THEN [ok |-> TRUE, val |-> direct.val, stage |-> 1]
             ELSE With(parse_candidate(extract_json_object(text)),
                       LAMBDA bracketed :
                  IF bracketed.ok
                  THEN [ok |-> TRUE, val |-> bracketed.val, stage |-> 2]
                  ELSE [ok |-> FALSE,
                        val |-> Str(parse_error_message(text)),
                        stage |-> 0])))

parse_model_json(text) ==
    With(json_loads(text), LAMBDA direct :
        IF direct.ok THEN [ok |-> TRUE, val |-> direct.val, stage |-> 1]
        ELSE With(parse_candidate(extract_json_object(text)),
                  LAMBDA bracketed :
             IF bracketed.ok
             THEN [ok |-> TRUE, val |-> bracketed.val, stage |-> 2]
             ELSE With(regex_search(text), LAMBDA m :
                  IF m.found
                  THEN [ok |-> TRUE, val |-> rescued_payload(m.group),
                        stage |-> 3]
                  ELSE [ok |-> FALSE,
                        val |-> Str(parse_error_message(text)),
                        stage |-> 0])))

\* The value bound to parsed by the try/except of each run controller.
error_payload(text, message) ==
    Dict(<< <<w_raw_text, Str(text)>>, <<w_parse_error, message>> >>)

\* parsed, for the outcome r of parse_model_json(text)
parsed_of(text, r) == IF r.ok THEN r.val ELSE error_payload(text, r.val)

parsed_or_error(text) == parsed_of(text, parse_model_json(text))

\* ------------------------------------------------------------------------
\* compact_notes and the renderers
\* ------------------------------------------------------------------------
\* The default of max_items, and the value both run controllers pass.
MaxItems == 3

\* The keys of line 207, in order.
Categories == <<w_premises, w_hypotheses, w_uncertainties, w_plan_next>>

\* compact_category without the [:max_items] slice.
compact_category_uncapped(notes, k, max_items) ==
    With(Get(notes, k, List(<<>>)), LAMBDA arr :
        List(IF IsList(arr) THEN arr.v ELSE <<Str(py_str(arr))>>))

\* compact_category coercing every value, a list included.
compact_category_coercing(notes, k, max_items) ==
    With(Get(notes, k, List(<<>>)), LAMBDA arr :
        List(SliceTo(<<Str(py_str(arr))>>, max_items)))

\* One round of the loop of lines 207-211: out[k] for category k.
compact_category(notes, k, max_items) ==
    With(Get(notes, k, List(<<>>)), LAMBDA arr :
        List(SliceTo(IF IsList(arr) THEN arr.v ELSE <<Str(py_str(arr))>>,
                     max_items)))

compact_notes(notes, max_items) ==
    Dict(<< <<Categories[1], compact_category(notes, Categories[1], max_items)>>,
            <<Categories[2], compact_category(notes, Categories[2], max_items)>>,
            <<Categories[3], compact_category(notes, Categories[3], max_items)>>,
            <<Categories[4], compact_category(notes, Categories[4], max_items)>> >>)

\* The initial prior_notes of lines 294 and 366.
EmptyNotes ==
    Dict(<< <<w_premises, List(<<>>)>>, <<w_hypotheses, List(<<>>)>>,
            <<w_uncertainties, List(<<>>)>>, <<w_plan_next, List(<<>>)>> >>)

RECURSIVE join_from(_, _, _)
\* sep.join(lst[i-1:]) for a list of strings (character sequences)
join_from(lst, i, sep) ==
    IF i > Len(lst) THEN <<>>
    ELSE lst[i] \o (IF i < Len(lst) THEN sep ELSE <<>>)
         \o join_from(lst, i + 1, sep)

\* str.join raises TypeError unless every item is a str.
Joinable(xs) == \A i \in 1..Len(xs) : IsStr(xs[i])

\* join(notes.get(key, [])) of render_prior, for a joinable list
render_category(notes, key) ==
    With(Get(notes, key, List(<<>>)).v, LAMBDA lst :
        join_from([i \in 1..Len(lst) |-> lst[i].v], 1, <<",", " ">>))

\* render_prior(notes): ok = FALSE stands for the TypeError of ", ".join.
render_prior(notes) ==
    IF \A i \in 1..4 : Joinable(Get(notes, Categories[i], List(<<>>)).v)
    THEN [ok |-> TRUE,
          text |-> <<"PRIOR NOTES (compressed):\n", "Premises*: [">>
                   \o render_category(notes, w_premises)
                   \o <<"]\n", "Hypotheses*: [">>
                   \o render_category(notes, w_hypotheses)
                   \o <<"]\n", "Uncertainties*: [">>
                   \o render_category(notes, w_uncertainties)
                   \o <<"]\n", "Plan_next*: [">>
                   \o render_category(notes, w_plan_next)
                   \o <<"]\n">>]
    ELSE [ok |-> FALSE, text |-> <<>>]

\* thoughts[-k:] if k > 0 else []
\* recent_thoughts taking thoughts[:k], the oldest k, in place of the last k.
recent_thoughts_oldest(thoughts, k) ==
    IF k > 0 THEN SubSeq(thoughts, 1, Min(k, Len(thoughts))) ELSE <<>>

recent_thoughts(thoughts, k) ==
    IF k > 0
    THEN SubSeq(thoughts, Max(1, Len(thoughts) - k + 1), Len(thoughts))
    ELSE <<>>

\* reversed(xs)
Reversed(xs) == [i \in 1..Len(xs) |-> xs[Len(xs) + 1 - i]]

HistoryHeader == "THOUGHT HISTORY (most recent first):\n"

NoHistory == "- (none)"

\* "\n".join(f"- {t}" for t in recent)
history_lines(recent) ==
    join_from([i \in 1..Len(recent) |-> <<"-", " ">> \o recent[i]], 1,
              <<"\n">>)

render_thought_history(thoughts, k) ==
    With(history_lines(Reversed(recent_thoughts(thoughts, k))), LAMBDA lines :
        <<HistoryHeader>>
            \o (IF Len(lines) > 0 THEN lines ELSE <<NoHistory>>))

\* ------------------------------------------------------------------------
\* Inputs: the texts the inference endpoint may answer with (each already
\* stripped, as ollama_chat returns them), and the command-line arguments
\* ------------------------------------------------------------------------
Quoted(s) == <<"\"">> \o s \o <<"\"">>

\* "key": value
KV(key, value) == Quoted(key) \o <<":", " ">> \o value

Comma == <<",", " ">>

Obj(body) == <<"{">> \o body \o <<"}">>

Arr(body) == <<"[">> \o body \o <<"]">>

\* Strict JSON with every field: a thought to trim, four premises, a
\* hypotheses value that is not a list, no uncertainties.
\*   {"next_thought": " a ", "answer": "a", "notes": {"premises":
\*    ["a", "b", "c", "d"], "hypotheses": "x", "plan_next": []}}
T_full ==
    Obj(KV(w_next_thought, Quoted(<<" ", "a", " ">>)) \o Comma
        \o KV(w_answer, Quoted(<<"a">>)) \o Comma
        \o KV(w_notes,
              Obj(KV(w_premises,
                     Arr(Quoted(<<"a">>) \o Comma \o Quoted(<<"b">>) \o Comma
                         \o Quoted(<<"c">>) \o Comma \o Quoted(<<"d">>)))
                  \o Comma \o KV(w_hypotheses, Quoted(<<"x">>))
                  \o Comma \o KV(w_plan_next, Arr(<<>>)))))

\* A fenced object: stage 1 fails, stage 2 succeeds.
\*   (fence)json\n{"next_thought": "b", "notes": {"premises": ["e"]}}\n(fence)
T_fenced ==
    Fence \o w_json \o <<"\n">>
        \o Obj(KV(w_next_thought, Quoted(<<"b">>)) \o Comma
               \o KV(w_notes, Obj(KV(w_premises, Arr(Quoted(<<"e">>))))))
        \o <<"\n">> \o Fence

\* No object at all, only the key pattern: stage 3 rescues it.
\*   "next_thought": "c"
T_rescue == KV(w_next_thought, Quoted(<<"c">>))

\* Fails every stage.
\*   {x
T_garbage == <<"{", "x">>

\* Strict JSON without a notes key; the thought is blank.
\*   {"next_thought": " ", "answer": ""}
T_nonotes ==
    Obj(KV(w_next_thought, Quoted(<<" ">>)) \o Comma
        \o KV(w_answer, Quoted(<<>>)))

\* Strict JSON that is not an object.
\*   []
T_list == Arr(<<>>)

\* Strict JSON whose notes value is not a mapping.
\*   {"notes": "x"}
T_badnotes == Obj(KV(w_notes, Quoted(<<"x">>)))

\* Strict JSON whose thought is null and whose answer is a number.
\*   {"next_thought": null, "answer": 5}
T_numanswer ==
    Obj(KV(w_next_thought, w_null) \o Comma \o KV(w_answer, <<"5">>))

\* Strict JSON whose notes hold an item that is not a string.
\*   {"notes": {"premises": [1]}}
T_numitem == Obj(KV(w_notes, Obj(KV(w_premises, Arr(<<"1">>)))))

Responses ==
    {T_full, T_fenced, T_rescue, T_garbage, T_nonotes, T_list, T_badnotes,
     T_numanswer, T_numitem}

\* The largest --samples / --iterations / --thoughts explored.
MaxIter == 3

\* The largest --history-window explored.
MaxWindow == 2

\* The default of --history-window (line 462).
DefaultWindow == 5

\* The scenario text given on the command line.
Scenario == <<"S">>

\* The --perturb-text given together with --perturb-at.
PerturbText == <<"X">>

\* perturb_at: None, or an index.
NoPerturb == [set |-> FALSE, at |-> 0]

PerturbAt(i) == [set |-> TRUE, at |-> i]

Modes == {"baseline", "loop", "thoughts"}

\* The parsed command lines explored: n is --samples, --iterations or
\* --thoughts according to the mode; baseline_run takes no perturbation and
\* only thoughts_run takes a history window.
ArgsSet ==
    {a \in [mode : Modes,
            has_scenario : BOOLEAN,
            n : 0..MaxIter,
            perturb_at : {NoPerturb} \cup {PerturbAt(i) : i \in 0..MaxIter},
            perturb_text : {<<>>, PerturbText},
            history_window : (0..MaxWindow) \cup {DefaultWindow}] :
        /\ a.mode = "baseline" => a.perturb_at = NoPerturb
        /\ a.perturb_text = (IF a.perturb_at.set THEN PerturbText ELSE <<>>)
        /\ a.mode = "thoughts" <=> a.history_window # DefaultWindow
        /\ ~a.has_scenario =>
             a.n = 0 /\ a.perturb_at = NoPerturb /\ a.mode = "baseline"}

\* ------------------------------------------------------------------------
\* Prompts.  The fixed texts of lines 34-116 are atoms named after their
\* constants; model, temperature and seed are fixed through a run and are
\* left out of the request, as timestamp, model, params and latency_sec
\* are left out of the log records.
\* ------------------------------------------------------------------------
SYSTEM_PROMPT == "SYSTEM_PROMPT"

FORMAT_INSTRUCTIONS == "FORMAT_INSTRUCTIONS"

BASE_INSTRUCTIONS == "BASE_INSTRUCTIONS"

LOOP_INSTRUCTIONS == "LOOP_INSTRUCTIONS"

THOUGHTS_INSTRUCTIONS == "THOUGHTS_INSTRUCTIONS"

THOUGHTS_FORMAT == "THOUGHTS_FORMAT"

\* The literal lines 380-382 and 384-389 of the stepwise prompt.
RESPONSE_REQUIREMENTS == "RESPONSE REQUIREMENTS"

EXAMPLE == "EXAMPLE"

\* messages: the system prompt and one user message
Messages(user_content) ==
    << [role |-> "system", content |-> <<SYSTEM_PROMPT>>],
       [role |-> "user", content |-> user_content] >>

\* "SCENARIO:\n{scenario}\n\n", the head of every user message
scenario_section(scenario) == <<"SCENARIO:\n">> \o scenario \o <<"\n\n">>

baseline_content(scenario) ==
    scenario_section(scenario)
        \o <<BASE_INSTRUCTIONS, "\n", FORMAT_INSTRUCTIONS>>

loop_content(scenario, prior_section) ==
    scenario_section(scenario) \o prior_section
        \o <<"\n", LOOP_INSTRUCTIONS, "\n", FORMAT_INSTRUCTIONS>>

thoughts_content(scenario, history) ==
    scenario_section(scenario) \o history
        \o <<"\n\n", RESPONSE_REQUIREMENTS, THOUGHTS_INSTRUCTIONS, "\n",
             THOUGHTS_FORMAT, "\n", EXAMPLE>>

\* current_scenario after the perturbation fires at index i (lines 300, 373);
\* label is "Iteration" in loop_run and "step" in thoughts_run.
perturbed_scenario(scenario, label, i, perturb_text) ==
    scenario \o <<"\n\nCHANGE LOG (", label, " ", ToString(i), "): ">>
        \o perturb_text

\* change_log when the perturbation fires at index i (lines 301, 374)
change_log_text(label, i, perturb_text) ==
    <<"CHANGE LOG applied at ", label, " ", ToString(i), ": ">>
        \o perturb_text

\* perturbs with >= in place of ==.
perturbs_from(perturb_at, i) == perturb_at.set /\ i >= perturb_at.at

\* perturb_at is not None and k == perturb_at
perturbs(perturb_at, i) == perturb_at.set /\ i = perturb_at.at

\* The console summary of lines 278-280 and 349-351:
\* (ans or "")[:160].replace("\n", " ") raises unless ans is falsy or a str.
\* The name of the error raised, "" when none: a number or a boolean cannot
\* be sliced, a list has no replace, a dict cannot be indexed by a slice.
summary_error(parsed) ==
    With(IF IsDict(parsed) THEN Get(parsed, w_answer, Str(<<>>))
         ELSE Str(<<>>),
         LAMBDA ans :
            IF ~Truthy(ans) \/ IsStr(ans) THEN ""
            ELSE IF IsList(ans) THEN "AttributeError"
            ELSE "TypeError")

\* new_notes of lines 327 and 413
\* new_notes_of with parsed.get("notes") in place of parsed.get("notes", {}).
new_notes_of_without_default(parsed) ==
    IF IsDict(parsed) THEN Get(parsed, w_notes, Null) ELSE EmptyDict

new_notes_of(parsed) ==
    IF IsDict(parsed) THEN Get(parsed, w_notes, EmptyDict) ELSE EmptyDict

\* prior_notes after lines 327-329 of loop_run
loop_update_notes(notes, parsed) ==
    With(new_notes_of(parsed), LAMBDA new_notes :
        IF IsDict(new_notes) THEN compact_notes(new_notes, MaxItems)
        ELSE notes)

\* prior_notes after lines 411-415 of thoughts_run
thoughts_update_notes(notes, parsed) ==
    IF IsDict(parsed)
    THEN With(new_notes_of(parsed), LAMBDA new_notes :
         IF IsDict(new_notes) THEN compact_notes(new_notes, MaxItems)
         ELSE notes)
    ELSE notes

\* next_thought after lines 410-412
next_thought_of(parsed) ==
    IF IsDict(parsed)
    THEN Strip(py_str(Get(parsed, w_next_thought, Str(<<>>))))
    ELSE <<>>

\* append_thought without the "if next_thought:" guard.
append_thought_unguarded(thoughts, next_thought) ==
    Append(thoughts, next_thought)

\* thoughts after lines 417-418
append_thought(thoughts, next_thought) ==
    IF Len(next_thought) > 0 THEN Append(thoughts, next_thought)
    ELSE thoughts

\* The records of lines 264-274, 333-345 and 420-434.
baseline_record(i, scenario, parsed) ==
    [mode |-> "baseline", iteration |-> i, scenario |-> scenario,
     prompt_kind |-> "baseline", response |-> parsed]

loop_record(i, scenario, notes, parsed, change_log) ==
    [mode |-> "loop", iteration |-> i, scenario |-> scenario,
     prompt_kind |-> "loop", prior_notes |-> notes, response |-> parsed,
     change_log |-> change_log]

\* thoughts_record counting the steps made, not the thoughts kept.
thoughts_record_counting_steps(i, scenario, notes, next_thought, thoughts, window, change_log) ==
    [mode |-> "thoughts", step |-> i, scenario |-> scenario,
     prompt_kind |-> "thoughts", prior_notes |-> notes,
     next_thought |-> next_thought, thoughts_so_far |-> i + 1,
     history_window |-> window, change_log |-> change_log]

thoughts_record(i, scenario, notes, next_thought, thoughts, window, change_log) ==
    [mode |-> "thoughts", step |-> i, scenario |-> scenario,
     prompt_kind |-> "thoughts", prior_notes |-> notes,
     next_thought |-> next_thought, thoughts_so_far |-> Len(thoughts),
     history_window |-> window, change_log |-> change_log]

\* The diagnostics printed to stderr (lines 154, 261, 323, 407, 473, 483).
parse_error_line(i) ==
    <<"[", ToString(i), "]", " JSON parse error. See log. Proceeding.">>

request_failed_line == <<"[ERROR] Ollama request failed">>

unreachable_line == <<"[ERROR] Could not reach Ollama">>

no_scenario_line == <<"Error: Provide --scenario or --scenario-file">>

\* ------------------------------------------------------------------------
\* State
\* ------------------------------------------------------------------------
VARIABLES
    args,              \* the parsed command line
    pc,                \* "main", "loop" (head of the for loop), "called"
                       \* (ollama_chat has returned), "exited"
    exit_code,         \* the exit status of the process, -1 while it runs
    raised,            \* the exception that ended the process, "" if none
    k,                 \* the loop index (i, k, step in the source)
    current_scenario,  \* the scenario in effect
    change_log,        \* change_log of the current iteration
    prior_notes,       \* the carried Notes
    thoughts,          \* the Thought History
    text,              \* the raw response of the current iteration
    log,               \* the lines of the log file, one record each
    requests,          \* the messages of every ollama_chat call made
    stderr,            \* the diagnostics printed
    probe              \* a text handed to the extractor on its own, and what
                       \* the extractor made of it

vars ==
    <<args, pc, exit_code, raised, k, current_scenario, change_log,
      prior_notes, thoughts, text, log, requests, stderr, probe>>

\* No text is handed to the extractor outside a run.
NoProbe == [op |-> "none", input |-> <<>>, edits |-> 0, output |-> Null]

\* The process has just started; the log file does not exist yet.
Init ==
    /\ args \in ArgsSet
    /\ pc = "main"
    /\ exit_code = -1
    /\ raised = ""
    /\ k = 0
    /\ current_scenario = Scenario
    /\ change_log = <<>>
    /\ prior_notes = EmptyNotes
    /\ thoughts = <<>>
    /\ text = <<>>
    /\ log = <<>>
    /\ requests = <<>>
    /\ stderr = <<>>
    /\ probe = NoProbe

\* The process ends with status code because of the exception named.
Exit(code, exception) ==
    /\ pc' = "exited"
    /\ exit_code' = code
    /\ raised' = exception

\* ------------------------------------------------------------------------
\* main
\* ------------------------------------------------------------------------
\* Lines 472-474: neither --scenario nor --scenario-file.
MainNoScenario ==
    /\ UNCHANGED probe
    /\ pc = "main"
    /\ ~args.has_scenario
    /\ stderr' = Append(stderr, no_scenario_line)
    /\ Exit(2, "SystemExit")
    /\ UNCHANGED <<args, k, current_scenario, change_log, prior_notes,
                   thoughts, text, log, requests>>

\* MainUnreachable with the connectivity check made before the scenario is
\* looked at.
MainUnreachable_first ==
    /\ UNCHANGED probe
    /\ pc = "main"
    /\ stderr' = Append(stderr, unreachable_line)
    /\ Exit(1, "SystemExit")
    /\ UNCHANGED <<args, k, current_scenario, change_log, prior_notes,
                   thoughts, text, log, requests>>

\* Lines 479-484: the connectivity check fails.
MainUnreachable ==
    /\ UNCHANGED probe
    /\ pc = "main"
    /\ args.has_scenario
    /\ stderr' = Append(stderr, unreachable_line)
    /\ Exit(1, "SystemExit")
    /\ UNCHANGED <<args, k, current_scenario, change_log, prior_notes,
                   thoughts, text, log, requests>>

\* Lines 486-517 and the first lines of the chosen run controller.
MainRun ==
    /\ UNCHANGED probe
    /\ pc = "main"
    /\ args.has_scenario
    /\ pc' = "loop"
    /\ k' = 0
    /\ current_scenario' = Scenario
    /\ prior_notes' = EmptyNotes
    /\ thoughts' = <<>>
    /\ UNCHANGED <<args, exit_code, raised, change_log, text, log, requests,
                   stderr>>

\* The for loop is exhausted; line 519, and the process ends normally.
RunDone ==
    /\ UNCHANGED probe
    /\ pc = "loop"
    /\ k >= args.n
    /\ Exit(0, "")
    /\ UNCHANGED <<args, k, current_scenario, change_log, prior_notes,
                   thoughts, text, log, requests, stderr>>

\* Call with a failed request answered by an empty text instead of sys.exit.
Call_without_exit(messages) ==
    /\ requests' = Append(requests, messages)
    /\ \/ /\ text' \in Responses
          /\ pc' = "called"
          /\ UNCHANGED <<exit_code, raised, stderr>>
       \/ /\ stderr' = Append(stderr, request_failed_line)
          /\ text' = <<>>
          /\ pc' = "called"
          /\ UNCHANGED <<exit_code, raised>>

\* ollama_chat(messages): the request is made; either the endpoint answers
\* with a text, or the request fails and lines 154-155 print the error and
\* exit with status 1.
Call(messages) ==
    /\ requests' = Append(requests, messages)
    /\ \/ /\ text' \in Responses
          /\ pc' = "called"
          /\ UNCHANGED <<exit_code, raised, stderr>>
       \/ /\ stderr' = Append(stderr, request_failed_line)
          /\ Exit(1, "SystemExit")
          /\ UNCHANGED text

\* The except branch of the try around parse_model_json: the diagnostic.
ReportParse(r) ==
    stderr' = IF r.ok THEN stderr ELSE Append(stderr, parse_error_line(k))

\* PersistAndPrint with the failure of the append caught and passed over.
PersistAndPrint_swallowing(record, error) ==
    \/ /\ k' = k + 1
       /\ pc' = "loop"
       /\ UNCHANGED <<log, exit_code, raised>>
    \/ /\ log' = Append(log, record)
       /\ IF error = ""
          THEN /\ k' = k + 1
               /\ pc' = "loop"
               /\ UNCHANGED <<exit_code, raised>>
          ELSE /\ Exit(1, error)
               /\ UNCHANGED k

\* PersistAndPrint with the log opened in mode "w" instead of "a".
PersistAndPrint_truncating(record, error) ==
    \/ /\ Exit(1, "OSError")
       /\ UNCHANGED <<log, k>>
    \/ /\ log' = <<record>>
       /\ IF error = ""
          THEN /\ k' = k + 1
               /\ pc' = "loop"
               /\ UNCHANGED <<exit_code, raised>>
          ELSE /\ Exit(1, error)
               /\ UNCHANGED k

\* log_jsonl(path, record), then the console summary, then the next round:
\* the append fails (the OSError propagates), or it succeeds and the summary
\* raises, or both succeed.
PersistAndPrint(record, error) ==
    \/ /\ Exit(1, "OSError")
       /\ UNCHANGED <<log, k>>
    \/ /\ log' = Append(log, record)
       /\ IF error = ""
          THEN /\ k' = k + 1
               /\ pc' = "loop"
               /\ UNCHANGED <<exit_code, raised>>
          ELSE /\ Exit(1, error)
               /\ UNCHANGED k

\* ------------------------------------------------------------------------
\* baseline_run
\* ------------------------------------------------------------------------
\* BaselineCall with the text of the last response carried into the prompt.
BaselineCall_carrying ==
    /\ UNCHANGED probe
    /\ pc = "loop"
    /\ args.mode = "baseline"
    /\ k < args.n
    /\ Call(Messages(baseline_content(current_scenario \o text)))
    /\ UNCHANGED <<args, k, current_scenario, change_log, prior_notes,
                   thoughts, log>>

\* Lines 245-256: the head of one round, up to the return of ollama_chat.
BaselineCall ==
    /\ UNCHANGED probe
    /\ pc = "loop"
    /\ args.mode = "baseline"
    /\ k < args.n
    /\ Call(Messages(baseline_content(current_scenario)))
    /\ UNCHANGED <<args, k, current_scenario, change_log, prior_notes,
                   thoughts, log>>

\* Lines 258-280: extract, persist, print.
BaselineRecord ==
    /\ UNCHANGED probe
    /\ pc = "called"
    /\ args.mode = "baseline"
    /\ With(parse_model_json(text), LAMBDA r :
            /\ ReportParse(r)
            /\ With(parsed_of(text, r), LAMBDA parsed :
                    PersistAndPrint(
                        baseline_record(k, current_scenario, parsed),
                        summary_error(parsed))))
    /\ UNCHANGED <<args, current_scenario, change_log, prior_notes, thoughts,
                   text, requests>>

\* ------------------------------------------------------------------------
\* loop_run
\* ------------------------------------------------------------------------
\* Lines 297-318: perturb, render, invoke.  render_prior raises TypeError
\* when the carried Notes hold an item that is not a string.
LoopCall ==
    /\ UNCHANGED probe
    /\ pc = "loop"
    /\ args.mode = "loop"
    /\ k < args.n
    /\ current_scenario' =
           IF perturbs(args.perturb_at, k)
           THEN perturbed_scenario(Scenario, "Iteration", k,
                                   args.perturb_text)
           ELSE current_scenario
    /\ change_log' =
           IF perturbs(args.perturb_at, k)
           THEN change_log_text("iteration", k, args.perturb_text)
           ELSE <<>>
    /\ With(render_prior(prior_notes), LAMBDA prior_section :
            IF prior_section.ok
            THEN Call(Messages(loop_content(current_scenario',
                                            prior_section.text)))
            ELSE /\ Exit(1, "TypeError")
                 /\ UNCHANGED <<text, requests, stderr>>)
    /\ UNCHANGED <<args, k, prior_notes, thoughts, log>>

\* LoopRecord recording the Notes the prompt of the iteration rendered.
LoopRecord_recording_rendered ==
    /\ UNCHANGED probe
    /\ pc = "called"
    /\ args.mode = "loop"
    /\ With(parse_model_json(text), LAMBDA r :
            /\ ReportParse(r)
            /\ With(parsed_of(text, r), LAMBDA parsed :
                    /\ prior_notes' = loop_update_notes(prior_notes, parsed)
                    /\ PersistAndPrint(
                           loop_record(k, current_scenario, prior_notes,
                                       parsed, change_log),
                           summary_error(parsed))))
    /\ UNCHANGED <<args, current_scenario, change_log, thoughts, text,
                   requests>>

\* Lines 320-351: extract, update the Notes, persist, print.
LoopRecord ==
    /\ UNCHANGED probe
    /\ pc = "called"
    /\ args.mode = "loop"
    /\ With(parse_model_json(text), LAMBDA r :
            /\ ReportParse(r)
            /\ With(parsed_of(text, r), LAMBDA parsed :
                    /\ prior_notes' = loop_update_notes(prior_notes, parsed)
                    /\ PersistAndPrint(
                           loop_record(k, current_scenario, prior_notes',
                                       parsed, change_log),
                           summary_error(parsed))))
    /\ UNCHANGED <<args, current_scenario, change_log, thoughts, text,
                   requests>>

\* ------------------------------------------------------------------------
\* thoughts_run
\* ------------------------------------------------------------------------
\* Lines 370-402: perturb, render the history, invoke.
ThoughtsCall ==
    /\ UNCHANGED probe
    /\ pc = "loop"
    /\ args.mode = "thoughts"
    /\ k < args.n
    /\ current_scenario' =
           IF perturbs(args.perturb_at, k)
           THEN perturbed_scenario(Scenario, "step", k, args.perturb_text)
           ELSE current_scenario
    /\ change_log' =
           IF perturbs(args.perturb_at, k)
           THEN change_log_text("step", k, args.perturb_text)
           ELSE <<>>
    /\ Call(Messages(thoughts_content(
                current_scenario',
                render_thought_history(thoughts, args.history_window))))
    /\ UNCHANGED <<args, k, prior_notes, thoughts, log>>

\* Lines 404-439: extract, update the Notes and the history, persist, print.
\* The summary takes next_thought, a str, and cannot raise.
ThoughtsRecord ==
    /\ UNCHANGED probe
    /\ pc = "called"
    /\ args.mode = "thoughts"
    /\ With(parse_model_json(text), LAMBDA r :
            /\ ReportParse(r)
            /\ With(parsed_of(text, r), LAMBDA parsed :
                    /\ prior_notes' =
                           thoughts_update_notes(prior_notes, parsed)
                    /\ thoughts' =
                           append_thought(thoughts, next_thought_of(parsed))
                    /\ PersistAndPrint(
                           thoughts_record(k, current_scenario, prior_notes',
                                           next_thought_of(parsed), thoughts',
                                           args.history_window, change_log),
                           "")))
    /\ UNCHANGED <<args, current_scenario, change_log, text, requests>>

Next ==
    \/ MainNoScenario
    \/ MainUnreachable
    \/ MainRun
    \/ BaselineCall
    \/ BaselineRecord
    \/ LoopCall
    \/ LoopRecord
    \/ ThoughtsCall
    \/ ThoughtsRecord
    \/ RunDone

Spec == Init /\ [][Next]_vars

\* ------------------------------------------------------------------------
\* The extractor on its own: parse_model_json and _extract_json_object
\* applied to response texts that no run controller constrains
\* ------------------------------------------------------------------------
\* The largest number of edits made to a text before it is handed over.
MaxEdits == 2

\* The texts the edits start from: the empty object, an object, an object
\* with braces inside a string value, an object with a next_thought, the
\* bare key pattern, an array, a word, and the empty text.
\*   {}   {"a": "b"}   {"a": "}{"}   {"next_thought": "c"}
\*   "next_thought": "c"   [1]   x   (empty)
ProbeTexts ==
    {Obj(<<>>),
     Obj(KV(<<"a">>, Quoted(<<"b">>))),
     Obj(KV(<<"a">>, Quoted(<<"}", "{">>))),
     Obj(KV(w_next_thought, Quoted(<<"c">>))),
     T_rescue,
     Arr(<<"1">>),
     <<"x">>,
     <<>>}

\* What an edit puts before or after a text.
Pieces == {<<"x">>, <<" ">>, <<"{">>, <<"}">>, Obj(<<>>)}

\* The language tags of a fence: none, json, and another one.
FenceTags == {<<>>, w_json, <<"p", "y">>}

\* (fence)tag\n text \n(fence)
Fenced(tag, inner) ==
    Fence \o tag \o <<"\n">> \o inner \o <<"\n">> \o Fence

\* The run controllers stand still while the extractor is probed.
RunVars ==
    <<args, pc, exit_code, raised, k, current_scenario, change_log,
      prior_notes, thoughts, text, log, requests, stderr>>

ProbeInit ==
    /\ args = [mode |-> "baseline", has_scenario |-> TRUE, n |-> 0,
               perturb_at |-> NoPerturb, perturb_text |-> <<>>,
               history_window |-> DefaultWindow]
    /\ pc = "main"
    /\ exit_code = -1
    /\ raised = ""
    /\ k = 0
    /\ current_scenario = Scenario
    /\ change_log = <<>>
    /\ prior_notes = EmptyNotes
    /\ thoughts = <<>>
    /\ text = <<>>
    /\ log = <<>>
    /\ requests = <<>>
    /\ stderr = <<>>
    /\ probe \in {[op |-> "none", input |-> t, edits |-> 0, output |-> Null] :
                    t \in ProbeTexts}

\* The text may still be edited.
Editable == probe.op = "none" /\ probe.edits < MaxEdits

Edited(t) == [probe EXCEPT !.input = t, !.edits = @ + 1]

\* The endpoint wraps the text into an object: {"a": text}
EditNest ==
    /\ Editable
    /\ probe' = Edited(Obj(KV(<<"a">>, probe.input)))
    /\ UNCHANGED RunVars

\* The endpoint wraps the text into a code fence.
EditFence ==
    /\ Editable
    /\ \E tag \in FenceTags : probe' = Edited(Fenced(tag, probe.input))
    /\ UNCHANGED RunVars

\* The endpoint puts something before the text.
EditPrepend ==
    /\ Editable
    /\ \E piece \in Pieces : probe' = Edited(piece \o probe.input)
    /\ UNCHANGED RunVars

\* The endpoint puts something after the text.
EditAppend ==
    /\ Editable
    /\ \E piece \in Pieces : probe' = Edited(probe.input \o piece)
    /\ UNCHANGED RunVars

\* parse_model_json(text)
ApplyParse ==
    /\ probe.op = "none"
    /\ probe' = [probe EXCEPT !.op = "parse",
                              !.output = parse_model_json(probe.input)]
    /\ UNCHANGED RunVars

\* _extract_json_object(text)
ApplyExtract ==
    /\ probe.op = "none"
    /\ probe' = [probe EXCEPT !.op = "extract",
                              !.output = extract_json_object(probe.input)]
    /\ UNCHANGED RunVars

ProbeNext ==
    \/ EditNest
    \/ EditFence
    \/ EditPrepend
    \/ EditAppend
    \/ ApplyParse
    \/ ApplyExtract

ProbeSpec == ProbeInit /\ [][ProbeNext]_vars

\* ------------------------------------------------------------------------
\* The compactor on its own: compact_notes applied to raw mappings that no
\* run controller constrains, and applied again to its own result
\* ------------------------------------------------------------------------
\* The largest number of entries of a raw mapping.
MaxEntries == 2

\* The largest max_items handed to compact_notes.
MaxCap == 3

\* The keys of a raw mapping: the four categories and one outside them.
RawKeys == {w_premises, w_hypotheses, w_uncertainties, w_plan_next,
            <<"x">>}

\* The values of a raw mapping: lists of zero, one and three strings, a list
\* holding a number, a string, a number, null, and a mapping.
RawValues ==
    <<List(<<>>),
      List(<<Str(<<"a">>)>>),
      List(<<Str(<<"a">>), Str(<<"b">>), Str(<<"c">>)>>),
      List(<<Num(<<"1">>), Str(<<"a">>)>>),
      Str(<<"a">>),
      Num(<<"1">>),
      Null,
      Dict(<< <<w_premises, List(<<Str(<<"a">>)>>)>> >>)>>

CompactInit ==
    /\ args = [mode |-> "baseline", has_scenario |-> TRUE, n |-> 0,
               perturb_at |-> NoPerturb, perturb_text |-> <<>>,
               history_window |-> DefaultWindow]
    /\ pc = "main"
    /\ exit_code = -1
    /\ raised = ""
    /\ k = 0
    /\ current_scenario = Scenario
    /\ change_log = <<>>
    /\ prior_notes = EmptyNotes
    /\ thoughts = <<>>
    /\ text = <<>>
    /\ log = <<>>
    /\ requests = <<>>
    /\ stderr = <<>>
    /\ probe \in {[op |-> "none", input |-> Dict(<<>>), edits |-> m,
                   output |-> Null, again |-> Null] : m \in 0..MaxCap}

\* The raw mapping gets one more entry; probe.edits is the max_items chosen.
PutEntry ==
    /\ probe.op = "none"
    /\ Len(probe.input.v) < MaxEntries
    /\ \E key \in RawKeys \ Keys(probe.input.v), j \in 1..Len(RawValues) :
           probe' = [probe EXCEPT
                        !.input = Dict(Append(probe.input.v,
                                              <<key, RawValues[j]>>))]
    /\ UNCHANGED RunVars

\* compact_notes(notes, max_items)
ApplyCompact ==
    /\ probe.op = "none"
    /\ probe' = [probe EXCEPT !.op = "compact",
                              !.output = compact_notes(probe.input,
                                                       probe.edits)]
    /\ UNCHANGED RunVars

\* compact_notes(compact_notes(notes, max_items), max_items)
ApplyCompactAgain ==
    /\ probe.op = "compact"
    /\ probe' = [probe EXCEPT !.op = "again",
                              !.again = compact_notes(probe.output,
                                                      probe.edits)]
    /\ UNCHANGED RunVars

CompactNext ==
    \/ PutEntry
    \/ ApplyCompact
    \/ ApplyCompactAgain

CompactSpec == CompactInit /\ [][CompactNext]_vars

\* ------------------------------------------------------------------------
\* Properties
\* ------------------------------------------------------------------------
Range(s) == {s[i] : i \in 1..Len(s)}

\* The iteration or step index a record carries.
RecordIndex(rec) == IF rec.mode = "thoughts" THEN rec.step ELSE rec.iteration

\* The record that a step has just appended to the log.
Appended == Len(log') = Len(log) + 1

LastRecord == log'[Len(log')]

\* The step leaves pc = "called": one of the three Record actions.
RecordStep == pc = "called" /\ pc' # "called"

\* The response of the iteration being recorded fails every stage.
ExtractionFails == ~parse_model_json(text).ok

\* The diagnostic of a failed extraction has been printed in this run.
SomeExtractionFailed ==
    \E i \in 0..MaxIter : parse_error_line(i) \in Range(stderr)

\* The run ended by neither a transport nor a persistence failure.
NoFatalFailure == raised \notin {"SystemExit", "OSError"}

\* The records of the log carry the indices 0, 1, ... in order.
IndicesInOrder == \A i \in 1..Len(log) : RecordIndex(log[i]) = i - 1

\* The payload holds a notes mapping.
HasNotesMapping(parsed) ==
    /\ IsDict(parsed)
    /\ w_notes \in Keys(parsed.v)
    /\ IsDict(Get(parsed, w_notes, Null))

\* C1: in loop_run and thoughts_run, an iteration whose response fails every
\* extraction stage leaves the carried Notes as they were before it, and a
\* successful parse whose payload holds a notes mapping replaces the carried
\* Notes by compact_notes of that mapping.
C1_NotesKeptOnFailedParse ==
    [][(RecordStep /\ Appended /\ args.mode \in {"loop", "thoughts"}) =>
         /\ ExtractionFails => prior_notes' = prior_notes
         /\ (~ExtractionFails /\ HasNotesMapping(parse_model_json(text).val))
              => prior_notes' =
                   compact_notes(Get(parse_model_json(text).val, w_notes,
                                     Null), MaxItems)]_vars

\* The record holds the error payload of text in place of a response.
ErrorRecorded(rec, raw) ==
    /\ "response" \in DOMAIN rec
    /\ rec.response = error_payload(raw, Str(parse_error_message(raw)))

\* C2: in each of the three modes, the record persisted for an iteration
\* whose extraction fails at every stage holds the error payload (raw text
\* and parse error) in place of the parsed response.
C2_ErrorPayloadPersisted ==
    [][(RecordStep /\ ExtractionFails /\ Appended)
         => ErrorRecorded(LastRecord, text)]_vars

\* C3: a failed extraction is not fatal: a run in which some extraction fails,
\* and no transport or persistence failure occurs, ends with exactly N
\* records after N calls.
C3_MalformedResponseNotFatal ==
    (pc = "exited" /\ SomeExtractionFailed /\ NoFatalFailure)
        => Len(log) = args.n /\ Len(requests) = args.n

\* The inference call of the current iteration failed.
TransportFailed == request_failed_line \in Range(stderr)

\* C4: once the inference call of iteration k has failed, the process has
\* ended with a non-zero status, call k was made once and none after it, and
\* the log holds exactly the k records of iterations 0..k-1.
C4_TransportFailureStopsRun ==
    TransportFailed =>
        /\ pc = "exited"
        /\ exit_code \notin {-1, 0}
        /\ Len(requests) = k + 1
        /\ Len(log) = k
        /\ IndicesInOrder

\* A transport failure on iteration 2, after two records.
C4_Witness == TransportFailed /\ k = 2 /\ Len(log) = 2 /\ args.n > 2

\* C5: a run of N configured iterations with no transport or persistence
\* failure makes exactly N inference calls and persists exactly N records,
\* with indices 0..N-1 in order, and then ends.
C5_ExactlyNIterations ==
    (pc = "exited" /\ args.has_scenario /\ NoFatalFailure) =>
        /\ Len(requests) = args.n
        /\ Len(log) = args.n
        /\ IndicesInOrder

\* The label of the change-log fragment in the running mode.
PerturbLabel == IF args.mode = "loop" THEN "Iteration" ELSE "step"

\* The change-log fragment of a perturbation at index p.
ChangeLogFragment(p) ==
    <<"\n\nCHANGE LOG (", PerturbLabel, " ", ToString(p), "): ">>
        \o args.perturb_text

\* s ends with suffix.
EndsWith(s, suffix) ==
    /\ Len(suffix) <= Len(s)
    /\ SubSeq(s, Len(s) - Len(suffix) + 1, Len(s)) = suffix

\* The scenario in effect at 0-based index i.
ScenarioInEffect(i) ==
    IF args.perturb_at.set /\ i >= args.perturb_at.at
    THEN Scenario \o ChangeLogFragment(args.perturb_at.at)
    ELSE Scenario

\* C6: in loop_run and thoughts_run the scenario of the prompt and of the
\* record of every iteration before the perturbation index is the base
\* scenario, and of every iteration from that index on is the base scenario
\* plus the labelled change-log fragment ending with the perturbation text;
\* the change log is recorded at that index only, and with no index set or
\* reached the scenario is the base scenario throughout.
C6_PerturbationFiresOnceAtIndex ==
    args.mode \in {"loop", "thoughts"} =>
        /\ \A i \in 1..Len(log) :
            /\ log[i].scenario = ScenarioInEffect(i - 1)
            /\ (args.perturb_at.set /\ i - 1 >= args.perturb_at.at)
                 => /\ EndsWith(log[i].scenario, PerturbText)
                    /\ log[i].scenario # Scenario
            /\ ~(args.perturb_at.set /\ i - 1 >= args.perturb_at.at)
                 => log[i].scenario = Scenario
            /\ (log[i].change_log # <<>>)
                 <=> (args.perturb_at.set /\ i - 1 = args.perturb_at.at)
        /\ \A i \in 1..Len(requests) :
            StartsWith(requests[i][2].content,
                       <<"SCENARIO:\n">> \o ScenarioInEffect(i - 1)
                           \o <<"\n\n">>)
        /\ pc \in {"called", "loop"} =>
             (current_scenario # Scenario
                <=> (args.perturb_at.set /\ Len(requests) > args.perturb_at.at))

\* Three recorded iterations of loop_run with the perturbation at index 1.
C6_Witness ==
    /\ args.mode = "loop"
    /\ args.perturb_at.set
    /\ args.perturb_at.at = 1
    /\ Len(log) = 3
    /\ log[1].scenario = Scenario
    /\ log[3].scenario # Scenario

\* The log holds one record for each index 0..k-1 in order, and the call of
\* an iteration is made only after the record of the one before it.
LogTracksIterations ==
    /\ IndicesInOrder
    /\ \A i \in 1..Len(log) : log[i].mode = args.mode
    /\ Len(log) <= Len(requests)
    /\ Len(requests) <= Len(log) + 1
    /\ pc = "loop" => Len(log) = k /\ Len(requests) = k
    /\ pc = "called" => Len(log) = k /\ Len(requests) = k + 1
    /\ pc = "exited" => Len(log) \in {k, k + 1}

\* A step leaves the log alone or appends one record to it.
LogAppendOnly ==
    \/ log' = log
    \/ /\ Appended
       /\ SubSeq(log', 1, Len(log)) = log

\* C7: in every reachable state the log holds exactly one record for each
\* completed iteration 0..k-1 in order, no step modifies or removes a record
\* already written, and the record of an iteration is appended before the
\* call of the next one is made.
C7_LogAppendOnlyTracksIterations ==
    []LogTracksIterations /\ [][LogAppendOnly]_vars

\* The call of iteration 2 in flight after the records of iterations 0, 1.
C7_Witness ==
    pc = "called" /\ k = 2 /\ Len(log) = 2 /\ Len(requests) = 3

\* The next_thought value of the payload is missing (the error payload of a
\* failed parse included) or empty after trimming.
NextThoughtBlank(parsed) ==
    \/ ~IsDict(parsed)
    \/ w_next_thought \notin Keys(parsed.v)
    \/ /\ IsStr(Get(parsed, w_next_thought, Null))
       /\ Strip(Get(parsed, w_next_thought, Null).v) = <<>>

\* The next_thought value of the payload is a string, non-empty once trimmed.
NextThoughtGiven(parsed) ==
    /\ IsDict(parsed)
    /\ w_next_thought \in Keys(parsed.v)
    /\ IsStr(Get(parsed, w_next_thought, Null))
    /\ Strip(Get(parsed, w_next_thought, Null).v) # <<>>

\* The thought history after a step that received the outcome r of
\* parse_model_json and the payload parsed.
ThoughtAppendedIffGiven(r, parsed) ==
    /\ ~r.ok => thoughts' = thoughts
    /\ NextThoughtBlank(parsed) => thoughts' = thoughts
    /\ NextThoughtGiven(parsed)
         => thoughts' = Append(thoughts,
                               Strip(Get(parsed, w_next_thought, Null).v))

WellFormedNotes(notes) ==
    /\ IsDict(notes)
    /\ Len(notes.v) = 4
    /\ \A j \in 1..4 :
        /\ notes.v[j][1] = Categories[j]
        /\ IsList(notes.v[j][2])
        /\ Len(notes.v[j][2].v) <= 3

\* The payload is a mapping whose notes are a mapping or missing: the
\* iteration compacts them.
CompactsNotes(parsed) ==
    /\ IsDict(parsed)
    /\ w_notes \in Keys(parsed.v) => IsDict(Get(parsed, w_notes, Null))

\* out is the compaction of category c of notes: empty when the category is
\* missing, one element when its value is no list, its first three elements
\* otherwise.
CompactedFrom(notes, c, out) ==
    IF c \notin Keys(notes.v) THEN out = List(<<>>)
    ELSE With(Get(notes, c, Null), LAMBDA arr :
            IF IsList(arr)
            THEN /\ IsList(out)
                 /\ Len(out.v) = Min(Len(arr.v), 3)
                 /\ \A j \in 1..Len(out.v) : out.v[j] = arr.v[j]
            ELSE /\ IsList(out)
                 /\ Len(out.v) = 1)

\* The carried Notes and the prior_notes of every record are well-formed.
NotesWellFormed ==
    args.mode \in {"loop", "thoughts"} =>
        /\ WellFormedNotes(prior_notes)
        /\ \A i \in 1..Len(log) : WellFormedNotes(log[i].prior_notes)

\* The Notes an iteration leaves are the compaction of the notes it
\* received, the empty mapping when the payload has none.
NotesCompacted ==
    (RecordStep /\ args.mode \in {"loop", "thoughts"}) =>
        With(parsed_or_error(text), LAMBDA parsed :
            CompactsNotes(parsed) =>
                \A j \in 1..4 :
                    CompactedFrom(Get(parsed, w_notes, EmptyDict),
                                  Categories[j], prior_notes'.v[j][2]))

\* C9: in every reachable state of loop_run and thoughts_run the carried
\* Notes and the prior_notes of every persisted record have exactly the four
\* category keys, each mapped to a sequence of at most 3 items; compact_notes
\* maps a missing category to the empty sequence, a value that is no sequence
\* to a one-element sequence, and a longer sequence to its first 3 elements.
C9_NotesWellFormedAndBounded ==
    []NotesWellFormed /\ [][NotesCompacted]_vars

\* Notes compacted from four premises, a hypotheses value that is no list and
\* no uncertainties, carried and recorded.
C9_Witness ==
    /\ args.mode = "loop"
    /\ Len(log) = 2
    /\ Len(prior_notes.v[1][2].v) = 3
    /\ Len(prior_notes.v[2][2].v) = 1
    /\ prior_notes.v[3][2].v = <<>>
    /\ log[2].prior_notes = prior_notes

\* Stages 1 and 2 of parse_model_json fail on the text.
StagesOneAndTwoFail(raw) == parse_model_json(raw).stage \in {0, 3}

\* C10: in baseline_run and loop_run a response that fails stages 1 and 2
\* is recorded as the error payload, even when the raw text holds a
\* "next_thought": "..." pattern, and never as a rescued payload.
C10_RescueOnlyInStepwiseMode ==
    [][(RecordStep /\ Appended /\ args.mode \in {"baseline", "loop"}
          /\ StagesOneAndTwoFail(text))
         => ErrorRecorded(LastRecord, text)]_vars

\* The append of the record failed.
PersistenceFailed == raised = "OSError"

\* A recording step that appends nothing is the failed append: it ends the
\* run with the error raised, after no further call.
FailedAppendIsFatal ==
    (RecordStep /\ ~Appended) =>
        /\ pc' = "exited"
        /\ raised' = "OSError"
        /\ exit_code' \notin {-1, 0}
        /\ log' = log
        /\ requests' = requests

\* After a failed append of record k the log holds the records 0..k-1.
FailedAppendKeepsLog ==
    PersistenceFailed =>
        /\ pc = "exited"
        /\ Len(log) = k
        /\ Len(requests) = k + 1
        /\ IndicesInOrder

\* C11: in every mode a failed append of the record of iteration k
\* propagates out of the run: no later iteration is started, no further call
\* or append is made, and the records of iterations 0..k-1 stay in the log.
C11_PersistenceFailureFatal ==
    []FailedAppendKeepsLog /\ [][FailedAppendIsFatal]_vars

\* The append of record 2 failed after records 0 and 1.
C11_Witness == PersistenceFailed /\ k = 2 /\ Len(log) = 2 /\ args.n > 2

\* The user message of every baseline request.
BatchPrompt ==
    <<"SCENARIO:\n">> \o Scenario
        \o <<"\n\n", BASE_INSTRUCTIONS, "\n", FORMAT_INSTRUCTIONS>>

\* C12: every request of baseline_run is the same function of the scenario
\* and the fixed instruction and schema texts, whatever the responses of the
\* earlier iterations were.
C12_BatchCarriesNoState ==
    args.mode = "baseline" =>
        \A i \in 1..Len(requests) :
            /\ requests[i][1].content = <<SYSTEM_PROMPT>>
            /\ requests[i][2].content = BatchPrompt
            /\ requests[i] = requests[1]

\* Three baseline requests after a parsed and a failed response.
C12_Witness ==
    /\ args.mode = "baseline"
    /\ Len(requests) = 3
    /\ w_answer \in Keys(log[1].response.v)
    /\ w_parse_error \in Keys(log[2].response.v)

\* The thoughts appended at the steps before step s, oldest first: the
\* non-empty next_thought values of the records of steps 0..s-1.
ThoughtsBefore(s) ==
    With(SelectSeq(SubSeq(log, 1, s), LAMBDA rec : rec.next_thought # <<>>),
         LAMBDA recs : [j \in 1..Len(recs) |-> recs[j].next_thought])

\* The number of elements thoughts_content puts after the history.
AfterHistory ==
    Len(thoughts_content(<<>>, <<>>)) - Len(scenario_section(<<>>))

\* The history block inside the user message of the request of step s.
HistoryOfStep(s) ==
    With(requests[s + 1][2].content, LAMBDA content :
        SubSeq(content, Len(ScenarioInEffect(s)) + 3,
               Len(content) - AfterHistory))

RECURSIVE ShownLines(_, _, _)
\* The lines of the j-th to the n-th most recent of the thoughts earlier.
ShownLines(earlier, j, n) ==
    IF j > n THEN <<>>
    ELSE <<"-", " ">> \o earlier[Len(earlier) + 1 - j]
            \o (IF j < n THEN <<"\n">> ELSE <<>>)
            \o ShownLines(earlier, j + 1, n)

\* block shows the last min(window, Len(earlier)) of the thoughts earlier,
\* most recent first, or the placeholder when it shows none.
ShowsRecent(block, earlier, window) ==
    With(Min(Max(window, 0), Len(earlier)), LAMBDA n :
        IF n = 0 THEN block = <<HistoryHeader, NoHistory>>
        ELSE block = <<HistoryHeader>> \o ShownLines(earlier, 1, n))

\* C13: the history rendered into the request of every step of thoughts_run
\* shows exactly the last min(history_window, number of thoughts) thoughts
\* appended at earlier steps, most recent first, and the placeholder when it
\* shows none; a step that appends nothing leaves the history rendered at the
\* next step identical.
C13_HistoryShowsRecentWindow ==
    args.mode = "thoughts" =>
        \A i \in 1..Len(requests) :
            /\ ShowsRecent(HistoryOfStep(i - 1), ThoughtsBefore(i - 1),
                           args.history_window)
            /\ (i > 1 /\ log[i - 1].next_thought = <<>>)
                 => HistoryOfStep(i - 1) = HistoryOfStep(i - 2)

\* A window of 1 over two distinct earlier thoughts: the request of step 2
\* shows the thought of step 1 and omits the thought of step 0.
C13_Witness ==
    /\ args.mode = "thoughts"
    /\ args.history_window = 1
    /\ Len(requests) = 3
    /\ Len(thoughts) = 2
    /\ thoughts[1] # thoughts[2]
    /\ HistoryOfStep(2) = <<HistoryHeader, "-", " ">> \o thoughts[2]

\* The connectivity check of main failed.
EndpointUnreachable == unreachable_line \in Range(stderr)

\* The for loop of the run controller ran to its end.
AllIterationsComplete ==
    /\ args.has_scenario
    /\ ~EndpointUnreachable
    /\ k = args.n
    /\ Len(log) = args.n

\* C14: without a scenario the process exits with status 2 before any
\* connectivity check, inference call or log append; with a scenario and the
\* endpoint unreachable, or an inference call failing, it exits with status
\* 1; when all N iterations complete it exits with status 0.
C14_StartupOutcomes ==
    /\ (pc = "exited") <=> (exit_code # -1)
    /\ exit_code \in {-1, 0, 1, 2}
    /\ ~args.has_scenario =>
         /\ requests = <<>>
         /\ log = <<>>
         /\ ~EndpointUnreachable
         /\ pc = "exited" => exit_code = 2
    /\ (exit_code = 2) => (~args.has_scenario /\ stderr = <<no_scenario_line>>)
    /\ (args.has_scenario /\ EndpointUnreachable) =>
         /\ pc = "exited"
         /\ exit_code = 1
         /\ requests = <<>>
         /\ log = <<>>
    /\ TransportFailed => (args.has_scenario /\ exit_code = 1)
    /\ (pc = "exited" /\ AllIterationsComplete) => exit_code = 0
    /\ (exit_code = 0) => (AllIterationsComplete /\ Len(requests) = args.n)

\* The run without a scenario has ended with status 2 and one diagnostic.
C14_Witness ==
    /\ ~args.has_scenario
    /\ pc = "exited"
    /\ exit_code = 2
    /\ stderr = <<no_scenario_line>>
    /\ requests = <<>>

\* out is what the three stages, tried in order, make of the outcomes direct
\* (json.loads of the whole text), bracketed (json.loads of the brace-matched
\* candidate) and m (the search for the key pattern).
FirstSuccessWins(out, direct, bracketed, m) ==
    /\ direct.ok => (out.ok /\ out.stage = 1 /\ out.val = direct.val)
    /\ (~direct.ok /\ bracketed.ok)
         => (out.ok /\ out.stage = 2 /\ out.val = bracketed.val)
    /\ (~direct.ok /\ ~bracketed.ok /\ m.found)
         => /\ out.ok
            /\ out.stage = 3
            /\ out.val = Dict(<< <<w_next_thought, Str(m.group)>>,
                                 <<w_notes, EmptyDict>> >>)
    /\ (~direct.ok /\ ~bracketed.ok /\ ~m.found) => (~out.ok /\ out.stage = 0)

\* C15: parse_model_json tries its stages in order and the first success
\* wins: a text that is valid JSON yields the parse of the whole text,
\* unchanged; the brace-matched candidate is used only when that parse
\* fails, the regex rescue only when both fail, and the failure is raised
\* only when all three fail.
C15_StagesInOrder ==
    probe.op = "parse" =>
        With3(json_loads(probe.input),
              parse_candidate(extract_json_object(probe.input)),
              regex_search(probe.input),
              LAMBDA direct, bracketed, m :
                  FirstSuccessWins(probe.output, direct, bracketed, m))

\* A text that is valid JSON and holds the key pattern as well is parsed by
\* stage 1, not rescued.
C15_Witness ==
    /\ probe.op = "parse"
    /\ json_loads(probe.input).ok
    /\ regex_search(probe.input).found
    /\ probe.output.stage = 1
    /\ w_notes \notin Keys(probe.output.val.v)

\* The least element of a set of positions, 0 when the set is empty.
Least(S) == IF S = {} THEN 0 ELSE CHOOSE i \in S : \A j \in S : i <= j

\* Position i of the text lies inside a string value: an odd number of
\* quotes precedes it.
InsideString(t, i) == Cardinality({j \in 1..(i - 1) : t[j] = "\""}) % 2 = 1

\* Every brace of the text is structural.
StructuralBraces(t) ==
    \A i \in 1..Len(t) : t[i] \in {"{", "}"} => ~InsideString(t, i)

\* The opening braces minus the closing braces of t[a..j].
BraceDepth(t, a, j) ==
    Cardinality({i \in a..j : t[i] = "{"})
        - Cardinality({i \in a..j : t[i] = "}"})

\* The first "{" of the text, and the first position from a at which the
\* depth counted from a is back to 0.
FirstOpen(t) == Least({i \in 1..Len(t) : t[i] = "{"})

DepthZero(t, a) == Least({j \in a..Len(t) : BraceDepth(t, a, j) = 0})

\* The first top-level object of the text, if there is one.
FirstObject(t) ==
    With(FirstOpen(t), LAMBDA a :
        IF a = 0 THEN NoCandidate
        ELSE With(DepthZero(t, a), LAMBDA j :
             IF j = 0 THEN NoCandidate ELSE Candidate(SubSeq(t, a, j))))

\* C16: for a text whose braces are all structural, _extract_json_object
\* returns the substring from the first "{" to the "}" at which the depth
\* count first returns to 0, the first top-level object, neither cut at an
\* inner "}" nor extended into what follows; it returns no candidate when
\* the text has no "{" or the depth never returns to 0.
C16_FirstTopLevelObject ==
    (probe.op = "extract" /\ StructuralBraces(probe.input))
        => probe.output = FirstObject(probe.input)

\* A nested object followed by a second object: the candidate runs past an
\* inner "}" and stops before the second "{".
C16_Witness ==
    /\ probe.op = "extract"
    /\ StructuralBraces(probe.input)
    /\ probe.output.found
    /\ With2(FirstOpen(probe.input), Len(probe.output.s), LAMBDA a, n :
           /\ \E i \in a..(a + n - 2) : probe.input[i] = "}"
           /\ \E i \in (a + n)..Len(probe.input) : probe.input[i] = "{")

\* The braces of the text are balanced: as many "{" as "}" and no prefix
\* with more "}" than "{".
BalancedBraces(t) ==
    /\ BraceDepth(t, 1, Len(t)) = 0
    /\ \A j \in 1..Len(t) : BraceDepth(t, 1, j) >= 0

\* The text is inner wrapped into a fence with the tag.
IsFenced(t, tag, inner) == t = Fenced(tag, inner)

\* What the fence with the tag holds, when the text is fenced with it.
FenceContent(t, tag) ==
    SubSeq(t, Len(Fence) + Len(tag) + 2, Len(t) - Len(Fence) - 1)

\* inner is a JSON object with balanced braces.
BalancedObject(inner) ==
    /\ BalancedBraces(inner)
    /\ json_loads(inner).ok
    /\ IsDict(json_loads(inner).val)

\* C17: for a JSON object with balanced braces wrapped in a code fence, with
\* or without a language tag after the opening fence, parse_model_json
\* returns the object that parsing the unfenced content returns.
C17_FencedParsesAsInner ==
    probe.op = "parse" =>
        \A tag \in FenceTags :
            With(FenceContent(probe.input, tag), LAMBDA inner :
                (IsFenced(probe.input, tag, inner) /\ BalancedObject(inner))
                    => /\ probe.output.ok
                       /\ probe.output.val = json_loads(inner).val)

\* The number of the steps 0..s whose record holds a non-empty thought.
ThoughtsUpTo(s) ==
    Cardinality({j \in 1..(s + 1) : log[j].next_thought # <<>>})

\* C18: every record of thoughts_run holds next_thought and thoughts_so_far,
\* whatever became of the response; thoughts_so_far of step s is the length
\* of the thought history after step s, the number of the steps 0..s that
\* gave a non-empty thought: it never decreases, rises by at most 1 a step
\* and never exceeds s + 1.
C18_ThoughtsSoFarCounts ==
    args.mode = "thoughts" =>
        /\ \A i \in 1..Len(log) :
            /\ {"next_thought", "thoughts_so_far"} \subseteq DOMAIN log[i]
            /\ log[i].thoughts_so_far = ThoughtsUpTo(i - 1)
            /\ log[i].thoughts_so_far <= i
            /\ i > 1 =>
                 /\ log[i].thoughts_so_far >= log[i - 1].thoughts_so_far
                 /\ log[i].thoughts_so_far <= log[i - 1].thoughts_so_far + 1
        /\ (Len(log) > 0 /\ ~PersistenceFailed)
             => log[Len(log)].thoughts_so_far = Len(thoughts)

\* Three steps, one of them a failed extraction, counted 1, 1, 2.
C18_Witness ==
    /\ args.mode = "thoughts"
    /\ Len(log) = 3
    /\ SomeExtractionFailed
    /\ log[1].thoughts_so_far = 1
    /\ log[2].thoughts_so_far = 1
    /\ log[3].thoughts_so_far = 2

\* The carried Notes after a step whose response parsed to the payload
\* parsed at the stage given.
NotesAfterParse(parsed, stage) ==
    /\ (IsDict(parsed) /\ w_notes \notin Keys(parsed.v))
         => prior_notes' = EmptyNotes
    /\ stage = 3 => prior_notes' = EmptyNotes
    /\ (IsDict(parsed) /\ w_notes \in Keys(parsed.v)
          /\ ~IsDict(Get(parsed, w_notes, Null)))
         => prior_notes' = prior_notes
    /\ ~IsDict(parsed) =>
         IF args.mode = "loop" THEN prior_notes' = EmptyNotes
         ELSE prior_notes' = prior_notes

\* C19: in loop_run and thoughts_run a parse that succeeds, the regex rescue
\* included, with a payload without a notes key resets the carried Notes to
\* four empty categories; a notes value that is no mapping leaves them
\* unchanged; valid JSON that is no object resets them in loop_run and leaves
\* them unchanged in thoughts_run.
C19_NotesResetWithoutNotesKey ==
    [][(RecordStep /\ args.mode \in {"loop", "thoughts"}) =>
         With(parse_model_json(text), LAMBDA r :
             r.ok => NotesAfterParse(r.val, r.stage))]_vars

\* Notes that held items are empty after a response that parsed to an
\* object without a notes key.
C19_Witness ==
    /\ args.mode = "loop"
    /\ Len(log) = 2
    /\ stderr = <<>>
    /\ log[1].prior_notes # EmptyNotes
    /\ IsDict(log[2].response)
    /\ w_notes \notin Keys(log[2].response.v)
    /\ log[2].prior_notes = EmptyNotes
    /\ prior_notes = EmptyNotes

\* block occurs in the text.
Contains(t, block) ==
    \E a \in 1..(Len(t) - Len(block) + 1) :
        SubSeq(t, a, a + Len(block) - 1) = block

\* The Notes carried into step s: empty at step 0, afterwards the
\* prior_notes of the record of step s - 1.
NotesCarriedInto(s) == IF s = 0 THEN EmptyNotes ELSE log[s].prior_notes

\* The user message of the request of step s renders the Notes carried
\* into it.
PromptRendersCarriedNotes(s) ==
    Contains(requests[s + 1][2].content,
             render_prior(NotesCarriedInto(s)).text)

\* The record appended by a step holds the Notes as the step leaves them.
RecordHoldsNotesAfterUpdate ==
    (RecordStep /\ Appended /\ args.mode \in {"loop", "thoughts"})
        => LastRecord.prior_notes = prior_notes'

\* The last record holds the Notes still carried.
LastRecordHoldsCarriedNotes ==
    (args.mode \in {"loop", "thoughts"} /\ Len(log) > 0
       /\ ~PersistenceFailed)
        => log[Len(log)].prior_notes = prior_notes

\* C20 as stated: in loop_run and thoughts_run the prior_notes of the record
\* of iteration k are the carried Notes after the update of iteration k,
\* which the prompt of iteration k+1 renders, and the prompt of iteration 0
\* renders four empty categories.
C20_RecordedNotesRenderedNext ==
    /\ LastRecordHoldsCarriedNotes
    /\ args.mode \in {"loop", "thoughts"} =>
         \A i \in 1..Len(requests) : PromptRendersCarriedNotes(i - 1)

\* C20, amended: in loop_run and thoughts_run the prior_notes of the record
\* of iteration k are the carried Notes after the update of iteration k; in
\* loop_run the prompt of iteration k+1 renders them and the prompt of
\* iteration 0 renders four empty categories, while no prompt of
\* thoughts_run renders any Notes.
C20_RecordedNotesAreUpdatedNotes ==
    /\ [](/\ LastRecordHoldsCarriedNotes
          /\ args.mode = "loop" =>
               \A i \in 1..Len(requests) : PromptRendersCarriedNotes(i - 1)
          /\ args.mode = "thoughts" =>
               \A i \in 1..Len(requests) :
                   ~Contains(requests[i][2].content,
                             <<"PRIOR NOTES (compressed):\n">>))
    /\ [][RecordHoldsNotesAfterUpdate]_vars

\* The prompt of iteration 0 rendered empty Notes, the record of iteration 0
\* holds Notes with items, and the prompt of iteration 1 renders those.
C20_Witness ==
    /\ args.mode = "loop"
    /\ Len(requests) = 2
    /\ log[1].prior_notes # EmptyNotes
    /\ PromptRendersCarriedNotes(0)
    /\ PromptRendersCarriedNotes(1)
    /\ ~Contains(requests[1][2].content, render_prior(log[1].prior_notes).text)

\* The result has the four category keys, each once and in the order of
\* line 207, each mapped to a list of at most max_items items.
CompactedTo(notes, max_items) ==
    /\ IsDict(notes)
    /\ [i \in 1..Len(notes.v) |-> notes.v[i][1]] = Categories
    /\ \A i \in 1..Len(notes.v) :
           /\ IsList(notes.v[i][2])
           /\ Len(notes.v[i][2].v) <= max_items

\* C21: compact_notes never fails on a mapping and is idempotent: for every
\* raw mapping r and every maxItems >= 0, compact_notes(compact_notes(r,
\* maxItems), maxItems) = compact_notes(r, maxItems), and no key of r outside
\* the four categories appears in the result.
C21_CompactIdempotent ==
    /\ probe.op \in {"compact", "again"} =>
         /\ CompactedTo(probe.output, probe.edits)
         /\ Keys(probe.output.v) \cap (Keys(probe.input.v) \ Range(Categories))
              = {}
    /\ probe.op = "again" => probe.again = probe.output

\* compact_notes applied twice to a mapping with a key outside the four
\* categories and a category that is a list of more than max_items items.
C21_Witness ==
    /\ probe.op = "again"
    /\ probe.edits = 2
    /\ <<"x">> \in Keys(probe.input.v)
    /\ \E i \in 1..Len(probe.input.v) :
           /\ probe.input.v[i][1] \in Range(Categories)
           /\ IsList(probe.input.v[i][2])
           /\ Len(probe.input.v[i][2].v) > probe.edits
    /\ \E i \in 1..Len(probe.output.v) : Len(probe.output.v[i][2].v) = 2
    /\ probe.again = probe.output

=============================================================================
